---------------------------- MODULE Spec2Model ----------------------------
(***************************************************************************)
(* gif-slacker: the elimination search (value_generator.values) and the    *)
(* file-existence render cache of Optimizer (_to_gif_ffmpeg / _to_gif).    *)
(*                                                                         *)
(* Three specifications share the variables:                               *)
(*   Spec        the generator values(), resumed with arbitrary verdicts   *)
(*   SpecOracle  the same generator, resumed by a fixed verdict function   *)
(*   SpecCache   trial workers calling Optimizer._to_gif on one instance   *)
(*   SpecOptimizer  one Optimizer from __init__ through optimize() calls   *)
(*               to __exit__                                               *)
(***************************************************************************)
EXTENDS Integers, Sequences, FiniteSets, TLC

(***************************************************************************)
(* Bounds of the model.                                                    *)
(***************************************************************************)
\* largest fps value a bounds pair may name (the source's native fps)
MaxFps == 2
\* largest width a bounds pair may name (the source's native width)
MaxSize == 2
\* largest lossy.max - lossy.min
MaxLossySpan == 2
\* SpecOracle enumerates every verdict function over grids up to this size
MaxOracleGrid == 8

\* SpecCache: trials started (n_trials), the largest byte size an external
\* tool writes, and the largest grid trials draw from
MaxTrials == 2
MaxBytes == 2
MaxCacheGrid == 2

\* SpecOptimizer: optimize() calls on one instance, the largest grid a call may
\* ask for, and the largest output_size_limit
MaxCalls == 2
MaxCallGrid == 4
MaxLimit == 1

\* Optimizer.LOSSY_MIN / LOSSY_MAX: the domain of the compression level
LOSSY_MIN == 0
LOSSY_MAX == 200
\* the literal 200 subtracted in `cor`
LossyPivot == 200

\* n_jobs: one sequential caller, or two concurrent trial workers
JobCounts == {1, 2}

\* lossy.min values tried: both ends of the domain and the two values next to
\* LossyPivot / 2, where lossy.min + lossy_ crosses the pivot
LossyMins == {LOSSY_MIN, 99, 100, LOSSY_MAX - MaxLossySpan}

(***************************************************************************)
(* Fixed-point arithmetic for the float distances.  A distance d in [0, 2] *)
(* is held as floor(d * DistUnit); a squared distance in units of          *)
(* 1 / DistScale.  DistUnit is a multiple of 2, 3, 4, 5, 6 so that the fps *)
(* and lossy terms, which are rationals with those denominators, are exact.*)
(***************************************************************************)
DistUnit == 2 * 2 * 2 * 3 * 3 * 5
DistScale == DistUnit * DistUnit

VARIABLES
    \* ---- values(fps, size, lossy) ----
    fps, size, lossy,   \* the three MinMax arguments
    pc,                 \* where the generator is suspended, or how it ended
    m,                  \* the Vals last yielded
    found_params,       \* list of accepted Vals
    vals,               \* the working slice of the sorted grid
    result,             \* the Vals the generator returned (StopIteration.value)
    asked,              \* the caller's log: <<candidate triple, verdict>> per send
    fixed, oracle       \* the caller: a fixed verdict function, or any verdicts

VARIABLES
    \* ---- one Optimizer instance during study.optimize (optimizer.py) ----
    jobs,               \* n_jobs: the number of trial workers
    started,            \* trials started so far
    aborted,            \* an exception left objective(): optimize() is over
    intermediate,       \* self.intermediate.exists()
    dir,                \* self.tmp: path |-> byte size of the file there
    wk,                 \* per worker: its place in _to_gif and its locals
    invocations,        \* cache path |-> external invocations started for it
    completed,          \* cache paths whose external invocation exited with 0
    requests,           \* cache path |-> _to_gif calls that returned for it
    returned            \* cache path |-> the byte sizes _to_gif returned for it

VARIABLES
    \* ---- the Optimizer instance and its optimize() calls (optimizer.py) ----
    opc,                \* where the instance is: before __init__, between calls,
                        \* in a step of optimize(), or after __exit__
    args,               \* the arguments of the latest optimize() call
    calls,              \* optimize() calls made so far
    outcome,            \* how the latest __init__ / optimize() ended
    reported,           \* every <<cause, exception kind>> that reached the caller
    palette,            \* self.palette: "none", or the input it was made from
    palette_input,      \* input_file of the running _create_palette
    best,               \* the cache path of study.best_params at the promotion
    output              \* the file at the output path

searchVars == <<fps, size, lossy, pc, m, found_params, vals, result, asked,
                fixed, oracle>>

cacheVars == <<jobs, started, aborted, intermediate, dir, wk,
               invocations, completed, requests, returned>>

callVars == <<opc, args, calls, outcome, reported, palette, palette_input,
              best, output>>

vars == <<searchVars, cacheVars, callVars>>

(***************************************************************************)
(* MinMax and Vals (value_generator.py:6-7).                               *)
(***************************************************************************)
MinMax(lo, hi) == [min |-> lo, max |-> hi]

Vals(f, s, l, d) == [fps |-> f, size |-> s, lossy |-> l, distance |-> d]

\* the candidate triple of a Vals, without its distance
Triple(v) == <<v.fps, v.size, v.lossy>>

NoVals == Vals(0, 0, 0, 0)

(***************************************************************************)
(* Integer helpers.                                                        *)
(***************************************************************************)
RECURSIVE Pow(_, _)
Pow(b, e) == IF e = 0 THEN 1 ELSE b * Pow(b, e - 1)

Abs(x) == IF x < 0 THEN -x ELSE x

\* the largest r in lo..hi with r^n <= x
RECURSIVE RootSearch(_, _, _, _)
RootSearch(x, n, lo, hi) ==
    IF lo >= hi THEN lo
    ELSE LET mid == (lo + hi + 1) \div 2
         IN  IF Pow(mid, n) <= x THEN RootSearch(x, n, mid, hi)
                                 ELSE RootSearch(x, n, lo, mid - 1)

\* floor(DistUnit * 2^(num/den)) for 0 <= num <= den
Pow2Frac(num, den) ==
    RootSearch(Pow(2, num) * Pow(DistUnit, den), den, DistUnit, 2 * DistUnit)

(***************************************************************************)
(* The scoring of one grid triple, lines 31 and 37-56.                     *)
(***************************************************************************)
delta_lossy == Abs(lossy.max - lossy.min)

cor(lossy_) == Abs((lossy.min + lossy_) - LossyPivot)

\* line 48 divides by delta_lossy whenever cor is not 0
ZeroDivision(lossy_) == cor(lossy_) # 0 /\ delta_lossy = 0

\* a mutation: the fps distance taken from the other end, fps.min / fps_
dist_fps2FromMin(fps_) == (fps.min * fps.min * DistScale) \div (fps_ * fps_)

\* dist_fps ** 2, in units of 1 / DistScale
dist_fps2(fps_) == (fps_ * fps_ * DistScale) \div (fps.max * fps.max)

\* dist_size ** 2 with dist_size = pow(2, size_ / size.max) - 1
dist_size2(size_) ==
    LET dist_size == Pow2Frac(size_, size.max) - DistUnit
    IN  dist_size * dist_size

\* dist_lossy ** 2 with dist_lossy = 0 if cor == 0 else pow(cor / delta_lossy, 0.5)
dist_lossy2(lossy_) ==
    IF cor(lossy_) = 0 THEN 0 ELSE (cor(lossy_) * DistScale) \div delta_lossy

\* The sort key of a grid triple.  The code stores the cube root of this sum;
\* the cube root is strictly increasing, so the order of the roots is the order
\* of the sums, and the model keeps the sum (distance ** 3).  The fps and lossy
\* terms are exact; the size term is floored to 1 / DistUnit, which keeps the
\* order of the floats for sizes up to 3.  Two triples whose sums are equal as
\* real numbers (fps.max = 3 with delta_lossy = 3 is the first case) are a tie
\* here and keep their loop order; the floats of the code may round such a pair
\* either way.
Distance(fps_, size_, lossy_) ==
    dist_fps2(fps_) + dist_size2(size_) + dist_lossy2(lossy_)

(***************************************************************************)
(* The grid in the order the three nested loops append it (lines 33-57).   *)
(***************************************************************************)
RangeLen(b) == b.max - b.min + 1

GridSize == RangeLen(fps) * RangeLen(size) * RangeLen(lossy)

GridTriples ==
    {<<f, s, l>> : f \in fps.min..fps.max, s \in size.min..size.max,
                   l \in lossy.min..lossy.max}

GridVals ==
    [j \in 1..GridSize |->
        LET k == j - 1
            lossy_ == lossy.min + (k % RangeLen(lossy))
            size_ == size.min + ((k \div RangeLen(lossy)) % RangeLen(size))
            fps_ == fps.min + (k \div (RangeLen(lossy) * RangeLen(size)))
        IN  Vals(fps_, size_, lossy_, Distance(fps_, size_, lossy_))]

\* the first lossy_ of the loops for which line 48 raises, if any
GridRaises == \E l \in lossy.min..lossy.max : ZeroDivision(l)

\* list.sort(key=distance, reverse=True): descending and stable
SortDescending(s) ==
    LET n == Len(s)
        Before(j) == {k \in 1..n : \/ s[k].distance > s[j].distance
                                   \/ s[k].distance = s[j].distance /\ k < j}
    IN  [i \in 1..n |-> s[CHOOSE j \in 1..n : Cardinality(Before(j)) = i - 1]]

SortedVals == SortDescending(GridVals)

(***************************************************************************)
(* The two corner candidates (lines 15 and 23).                            *)
(***************************************************************************)
MaxCorner == Vals(fps.max, size.max, lossy.min, DistScale)

\* a mutation: the minimum options take the least lossy value
MinCornerLeastLossy == Vals(fps.min, size.min, lossy.min, 0)

MinCorner == Vals(fps.min, size.min, lossy.max, 0)

(***************************************************************************)
(* The bisection, lines 61-71.                                             *)
(***************************************************************************)
\* a mutation: probe the second element of the slice, a linear scan
MedianLinear(v) == 1

\* floor(len(vals) / 2), a 0-based index
Median(v) == Len(v) \div 2

\* a mutation: an accepted probe keeps the lower-ranked half
UpperKeepsLow(v) == SubSeq(v, Median(v) + 1, Len(v))

\* vals[:median]
Upper(v) == SubSeq(v, 1, Median(v))

\* vals[median:]
Lower(v) == SubSeq(v, Median(v) + 1, Len(v))

Last(s) == s[Len(s)]

\* The head of the while loop with slice v and accepted list f: yield the median
\* candidate, or leave the loop and return found_params[-1].
LoopHead(v, f) ==
    IF Len(v) > 1
    THEN /\ pc' = "yield_median"
         /\ m' = v[Median(v) + 1]
         /\ result' = result
    ELSE /\ pc' = "returned"
         /\ m' = m
         /\ result' = Last(f)

(***************************************************************************)
(* The caller's verdict for a yielded candidate.                           *)
(***************************************************************************)
Verdicts(v) == IF fixed THEN {oracle[Triple(v)]} ELSE BOOLEAN

Log(v, ok) == Append(asked, [cand |-> Triple(v), ok |-> ok])

(***************************************************************************)
(* Actions of the generator.                                               *)
(***************************************************************************)
\* next(g): run to the first yield (lines 15-17)
Start ==
    /\ pc = "new"
    /\ m' = MaxCorner
    /\ pc' = "yield_max"
    /\ UNCHANGED <<fps, size, lossy, found_params, vals, result, asked,
                   fixed, oracle>>
    /\ UNCHANGED <<cacheVars, callVars>>

\* g.send(ok) at the first yield (lines 17-26)
SendMax ==
    /\ pc = "yield_max"
    /\ \E ok \in Verdicts(m) :
        /\ asked' = Log(m, ok)
        /\ IF ok
           THEN /\ pc' = "returned"
                /\ result' = m
                /\ UNCHANGED <<m, found_params>>
           ELSE /\ pc' = "yield_min"
                /\ m' = MinCorner
                /\ found_params' = <<MinCorner>>
                /\ UNCHANGED result
    /\ UNCHANGED <<fps, size, lossy, vals, fixed, oracle>>
    /\ UNCHANGED <<cacheVars, callVars>>

\* g.send(ok) at the second yield (lines 26-64): raise, or build and sort the
\* grid and enter the loop
SendMin ==
    /\ pc = "yield_min"
    /\ \E ok \in Verdicts(m) :
        /\ asked' = Log(m, ok)
        /\ IF ~ok
           THEN /\ pc' = "unsat"
                /\ UNCHANGED <<m, vals, result>>
           ELSE IF GridRaises
           THEN /\ pc' = "zerodiv"
                /\ UNCHANGED <<m, vals, result>>
           ELSE /\ vals' = SortedVals
                /\ LoopHead(SortedVals, found_params)
    /\ UNCHANGED <<fps, size, lossy, found_params, fixed, oracle>>
    /\ UNCHANGED <<cacheVars, callVars>>

\* g.send(ok) at the yield inside the loop (lines 64-71)
SendMedian ==
    /\ pc = "yield_median"
    /\ \E ok \in Verdicts(m) :
        /\ asked' = Log(m, ok)
        /\ IF ok
           THEN /\ vals' = Upper(vals)
                /\ found_params' = Append(found_params, m)
                /\ LoopHead(Upper(vals), Append(found_params, m))
           ELSE /\ vals' = Lower(vals)
                /\ found_params' = found_params
                /\ LoopHead(Lower(vals), found_params)
    /\ UNCHANGED <<fps, size, lossy, fixed, oracle>>
    /\ UNCHANGED <<cacheVars, callVars>>

NextSearch == Start \/ SendMax \/ SendMin \/ SendMedian

(***************************************************************************)
(* The working directory self.tmp.  A path is a tuple: <<token>> for       *)
(* _temp_file(), <<fps, size>> and <<fps, size, lossy>> for the two forms  *)
(* of _file_name(); the three forms cannot collide.                        *)
(***************************************************************************)
\* _temp_file(): self.tmp / f"{secrets.token_urlsafe()}.gif".  The token is
\* fresh at every call.  A worker holds one temporary file at a time (it is
\* renamed away before the next is named, and a worker whose step raised names
\* no other), so the worker's number stands for the token it drew last.
TempFile(w) == <<w>>

\* _file_name(fps, size): f"{fps}-{size}.gif"
GifName(fps_, size_) == <<fps_, size_>>

\* _file_name(fps, size, lossy): f"{fps}-{size}-{lossy}.gif"
LossyName(fps_, size_, lossy_) == <<fps_, size_, lossy_>>

\* the deterministic cache paths of the grid the trials draw from
CachePaths ==
    {GifName(f, s) : f \in fps.min..fps.max, s \in size.min..size.max}
        \cup {LossyName(g[1], g[2], g[3]) : g \in GridTriples}

\* Path.exists()
Exists(path) == path \in DOMAIN dir

\* a mutation: the cache test never sees the cached file
CachedNever(output_file) == FALSE

\* the cache hit test: `if output_file.exists(): return ...` (lines 122, 150)
Cached(output_file) == Exists(output_file)

\* a mutation: the external tool writes straight to the cache path
OutputFileDirect(w, output_file) == output_file

\* output_file_tmp = self._temp_file(): the path the external tool writes,
\* later renamed to output_file
OutputFileTmp(w, output_file) == TempFile(w)

\* the directory after a tool wrote `bytes` at `path`
Written(d, path, bytes) ==
    [q \in DOMAIN d \cup {path} |-> IF q = path THEN bytes ELSE d[q]]

\* Path.rename(): the directory after src replaced dst
Renamed(d, src, dst) ==
    [q \in (DOMAIN d \ {src}) \cup {dst} |-> IF q = dst THEN d[src] ELSE d[q]]

ByteSizes == 1..MaxBytes

\* The sizes a tool may give its output.  gifsicle's is what _to_gif returns;
\* ffmpeg's is never read (_to_gif_ffmpeg returns the path alone), so the model
\* keeps one size for it.
OutputSizes(tool) == IF tool = "ffmpeg" THEN {MaxBytes} ELSE ByteSizes

\* the worker threads of study.optimize(n_jobs=jobs)
Workers == 1..jobs

AllWorkers == 1..(CHOOSE n \in JobCounts : \A k \in JobCounts : k <= n)

Idle == [pc |-> "idle", fps |-> 0, size |-> 0, lossy |-> 0,
         input_file |-> "", output_file |-> <<>>, output_file_tmp |-> <<>>,
         exc |-> ""]

\* the exception of a failed step leaves objective(): study.optimize() re-raises
\* it (optimize() catches KeyboardInterrupt only) and the worker's trial is over
Raise(w, exc) ==
    /\ wk' = [wk EXCEPT ![w].pc = "raised", ![w].exc = exc]
    /\ aborted' = TRUE

\* cmd(..., check=True) is entered: one more external invocation for the cache
\* path output_file, writing to the worker's output_file_tmp
Invoke(w, tool, t, output_file) ==
    /\ wk' = [wk EXCEPT ![w] = [t EXCEPT !.pc = tool,
                                         !.output_file = output_file,
                                         !.output_file_tmp =
                                             OutputFileTmp(w, output_file)]]
    /\ invocations' = [invocations EXCEPT ![output_file] = @ + 1]

\* _to_gif returns (output_file, output_file.stat().st_size)
Return(w, output_file) ==
    /\ wk' = [wk EXCEPT ![w] = Idle]
    /\ requests' = [requests EXCEPT ![output_file] = @ + 1]
    /\ returned' = [returned EXCEPT ![output_file] = @ \cup {dir[output_file]}]

(***************************************************************************)
(* Actions of a trial worker: objective() -> _to_gif -> _to_gif_ffmpeg.    *)
(***************************************************************************)
\* A trial starts (trial.suggest_*), _to_gif calls _to_gif_ffmpeg, which picks
\* its input, tests the cache path and returns it or starts ffmpeg
\* (lines 222-226, 147, 117-128).
BeginTrial(w) ==
    /\ w \in Workers
    /\ UNCHANGED <<searchVars, callVars>>
    /\ opc = "trials"
    /\ wk[w].pc = "idle"
    /\ ~aborted
    /\ started < MaxTrials
    /\ started' = started + 1
    /\ \E f \in fps.min..fps.max, s \in size.min..size.max,
          l \in lossy.min..lossy.max :
        LET t == [Idle EXCEPT !.fps = f, !.size = s, !.lossy = l,
                              !.input_file = IF intermediate THEN "intermediate"
                                                             ELSE "video_file"]
        IN  IF Cached(GifName(f, s))
            THEN /\ wk' = [wk EXCEPT ![w] = [t EXCEPT !.pc = "to_gif"]]
                 /\ UNCHANGED invocations
            ELSE Invoke(w, "ffmpeg", t, GifName(f, s))
    /\ UNCHANGED <<jobs, aborted, intermediate, dir, completed, requests,
                   returned>>

\* the running external tool creates its output file
CmdWrite(w) ==
    /\ w \in Workers
    /\ UNCHANGED <<searchVars, callVars>>
    /\ wk[w].pc \in {"ffmpeg", "gifsicle"}
    /\ ~Exists(wk[w].output_file_tmp)
    /\ \E bytes \in OutputSizes(wk[w].pc) :
        dir' = Written(dir, wk[w].output_file_tmp, bytes)
    /\ UNCHANGED <<jobs, started, aborted, intermediate, wk,
                   invocations, completed, requests, returned>>

\* the external tool exits; check=True raises CalledProcessError unless the
\* exit status is 0 (cmd.py:11)
CmdExit(w) ==
    /\ w \in Workers
    /\ UNCHANGED <<searchVars, callVars>>
    /\ wk[w].pc \in {"ffmpeg", "gifsicle"}
    /\ \/ /\ wk' = [wk EXCEPT ![w].pc = IF wk[w].pc = "ffmpeg"
                                        THEN "ffmpeg_rename"
                                        ELSE "gifsicle_rename"]
          /\ completed' = completed \cup {wk[w].output_file}
          /\ UNCHANGED aborted
       \/ /\ Raise(w, "CalledProcessError")
          /\ UNCHANGED completed
    /\ UNCHANGED <<jobs, started, intermediate, dir, invocations,
                   requests, returned>>

\* output_file_tmp.rename(output_file); FileNotFoundError if the tool wrote
\* nothing (lines 143 and 166)
Rename(w, next) ==
    IF Exists(wk[w].output_file_tmp)
    THEN /\ dir' = Renamed(dir, wk[w].output_file_tmp, wk[w].output_file)
         /\ wk' = [wk EXCEPT ![w].pc = next]
         /\ UNCHANGED aborted
    ELSE /\ Raise(w, "FileNotFoundError")
         /\ UNCHANGED dir

FfmpegRename(w) ==
    /\ w \in Workers
    /\ UNCHANGED <<searchVars, callVars>>
    /\ wk[w].pc = "ffmpeg_rename"
    /\ Rename(w, "to_gif")
    /\ UNCHANGED <<jobs, started, intermediate, invocations,
                   completed, requests, returned>>

\* _to_gif after _to_gif_ffmpeg returned: test the cache path of the triple and
\* return the cached file and its size, or start gifsicle (lines 149-156)
ToGif(w) ==
    /\ w \in Workers
    /\ UNCHANGED <<searchVars, callVars>>
    /\ wk[w].pc = "to_gif"
    /\ LET output_file == LossyName(wk[w].fps, wk[w].size, wk[w].lossy)
       IN  IF Cached(output_file)
           THEN /\ Return(w, output_file)
                /\ UNCHANGED invocations
           ELSE /\ Invoke(w, "gifsicle", wk[w], output_file)
                /\ UNCHANGED <<requests, returned>>
    /\ UNCHANGED <<jobs, started, aborted, intermediate, dir, completed>>

GifsicleRename(w) ==
    /\ w \in Workers
    /\ UNCHANGED <<searchVars, callVars>>
    /\ wk[w].pc = "gifsicle_rename"
    /\ Rename(w, "stat")
    /\ UNCHANGED <<jobs, started, intermediate, invocations,
                   completed, requests, returned>>

\* return output_file, output_file.stat().st_size (line 167)
Stat(w) ==
    /\ w \in Workers
    /\ UNCHANGED <<searchVars, callVars>>
    /\ wk[w].pc = "stat"
    /\ IF Exists(wk[w].output_file)
       THEN /\ Return(w, wk[w].output_file)
            /\ UNCHANGED aborted
       ELSE /\ Raise(w, "FileNotFoundError")
            /\ UNCHANGED <<requests, returned>>
    /\ UNCHANGED <<jobs, started, intermediate, dir, invocations,
                   completed>>

NextCache ==
    \E w \in AllWorkers :
        \/ BeginTrial(w)
        \/ CmdWrite(w)
        \/ CmdExit(w)
        \/ FfmpegRename(w)
        \/ ToGif(w)
        \/ GifsicleRename(w)
        \/ Stat(w)

\* the Optimizer before study.optimize(): an empty cache, no worker in a trial
InitCache(n) ==
    /\ jobs = n
    /\ started = 0
    /\ aborted = FALSE
    /\ dir = <<>>
    /\ wk = [w \in 1..n |-> Idle]
    /\ invocations = [path \in CachePaths |-> 0]
    /\ completed = {}
    /\ requests = [path \in CachePaths |-> 0]
    /\ returned = [path \in CachePaths |-> {}]

(***************************************************************************)
(* The objective of a trial (optimizer.py:221-246) and delta (268-272).    *)
(* A distance in [0, 1] is held as floor(d * ObjUnit); delta is kept as    *)
(* the exact fraction <<numerator, denominator>>.                          *)
(***************************************************************************)
ObjUnit == 2 * 2 * 3 * 5

\* delta(min, max, x): 1.0 when min == max, else abs(min - x) / abs(min - max)
delta(lo, hi, x) ==
    LET div == Abs(lo - hi)
    IN  IF div = 0 THEN <<1, 1>> ELSE <<Abs(lo - x), div>>

\* floor(ObjUnit * (q[1] / q[2]) ** (n / d)) for a fraction q in [0, 1]
FracPow(q, n, d) ==
    RootSearch((Pow(ObjUnit, d) * Pow(q[1], n)) \div Pow(q[2], n), d, 0, ObjUnit)

\* dist_fps = delta(fps_min, fps_max, fps)
objective_dist_fps(fps_) == FracPow(delta(fps.min, fps.max, fps_), 1, 1)

\* dist_size = delta(size_min, size_max, size) ** 0.75
objective_dist_size(size_) == FracPow(delta(size.min, size.max, size_), 3, 4)

\* dist_lossy = (1.0 - delta(lossy_min, lossy_max, lossy)) ** 2.5
objective_dist_lossy(lossy_) ==
    LET d == delta(lossy.min, lossy.max, lossy_)
    IN  FracPow(<<d[2] - d[1], d[2]>>, 5, 2)

\* dist = dist_fps + dist_size + dist_lossy, in units of 1 / ObjUnit
objective_dist(g) ==
    objective_dist_fps(g[1]) + objective_dist_size(g[2])
        + objective_dist_lossy(g[3])

\* The value objective() returns for the triple g rendered to `bytes` bytes
\* under output_size_limit `limit`, as a fraction; <<1, 0>> is float("inf").
objective(g, bytes, limit) ==
    IF bytes > limit
    THEN <<limit + (bytes - limit) * (bytes - limit), 1>>
    ELSE IF objective_dist(g) = 0
    THEN <<1, 0>>
    ELSE <<(1 + limit - bytes) * ObjUnit, objective_dist(g)>>

\* a < b for two objective values
ValueLess(a, b) ==
    IF a[2] = 0 THEN FALSE
    ELSE IF b[2] = 0 THEN TRUE
    ELSE a[1] * b[2] < b[1] * a[2]

(***************************************************************************)
(* The Optimizer instance: __init__, optimize() and __exit__.              *)
(***************************************************************************)
\* self.fps and self.width: the native values the probe found
NativeFps == MaxFps

NativeWidth == MaxSize

NoOutcome == [kind |-> "", cause |-> ""]

NoFile == [path |-> <<>>, bytes |-> 0]

NoArgs == [output_size_limit |-> 0, fps_min |-> 0, fps_max |-> 0,
           size_min |-> 0, size_max |-> 0, lossy_min |-> 0, lossy_max |-> 0]

\* an exception of `kind`, raised for `cause`, reaches the caller
Failed(kind, cause) ==
    /\ outcome' = [kind |-> kind, cause |-> cause]
    /\ reported' = reported \cup {[kind |-> kind, cause |-> cause]}

\* What ffprobe printed: all three fields, a field missing, or a frame rate
\* with denominator 0 (int(fps[1]) / int(fps[2]), line 58).
ProbeOutputs == {"ok", "no_fps", "zero_rate", "no_width", "no_height"}

\* __init__ (lines 24-31, 40-68): the probe learns fps and width, or raises.
\* The model follows one Optimizer through its life; the caller may construct
\* another after its scope ended, of which only a failure is recorded.
Construct ==
    /\ opc \in {"new", "exited"}
    /\ outcome.cause # "probe-failure"
    /\ \E stdout \in ProbeOutputs :
        IF stdout = "ok"
        THEN /\ opc = "new"
             /\ opc' = "ready"
             /\ outcome' = NoOutcome
             /\ UNCHANGED reported
        ELSE /\ opc' = IF opc = "new" THEN "failed" ELSE opc
             /\ Failed(IF stdout = "zero_rate" THEN "ZeroDivisionError"
                                               ELSE "ValueError",
                       "probe-failure")
    /\ UNCHANGED <<args, calls, palette, palette_input, best, output>>
    /\ UNCHANGED <<searchVars, cacheVars>>

\* a mutation: fps_min > fps_max is not tested
ArgChecksNoFpsOrder(a) ==
    << a.output_size_limit > 0,
       0 < a.fps_min /\ a.fps_min <= NativeFps,
       0 < a.fps_max /\ a.fps_max <= NativeFps,
       TRUE,
       1 <= a.size_min /\ a.size_min <= NativeWidth,
       1 <= a.size_max /\ a.size_max <= NativeWidth,
       a.size_min <= a.size_max,
       LOSSY_MIN <= a.lossy_min /\ a.lossy_min <= LOSSY_MAX,
       LOSSY_MIN <= a.lossy_max /\ a.lossy_max <= LOSSY_MAX,
       a.lossy_min <= a.lossy_max >>

\* the tests of lines 184-206 in their order; each raises ValueError if FALSE
ArgChecks(a) ==
    << a.output_size_limit > 0,
       0 < a.fps_min /\ a.fps_min <= NativeFps,
       0 < a.fps_max /\ a.fps_max <= NativeFps,
       a.fps_min <= a.fps_max,
       1 <= a.size_min /\ a.size_min <= NativeWidth,
       1 <= a.size_max /\ a.size_max <= NativeWidth,
       a.size_min <= a.size_max,
       LOSSY_MIN <= a.lossy_min /\ a.lossy_min <= LOSSY_MAX,
       LOSSY_MIN <= a.lossy_max /\ a.lossy_max <= LOSSY_MAX,
       a.lossy_min <= a.lossy_max >>

\* the first test that fails, 0 if none does
FailedCheck(a) ==
    LET failing == {i \in DOMAIN ArgChecks(a) : ~ArgChecks(a)[i]}
    IN  IF failing = {} THEN 0
        ELSE CHOOSE i \in failing : \A j \in failing : i <= j

\* a mutation: the intermediate is made for every call
NeedsIntermediateAlways(a) == TRUE

\* line 216: a requested ceiling is below the native value
NeedsIntermediate(a) == a.fps_max < NativeFps \/ a.size_max < NativeWidth

\* a mutation: the palette is always made from the source video
PaletteInputVideo(inter) == "video_file"

\* lines 82-84: input_file of _create_palette, given self.intermediate.exists()
PaletteInput(inter) == IF inter THEN "intermediate" ELSE "video_file"

\* _create_palette (lines 78-96) up to its cmd(): return at once if the palette
\* exists, so that study.optimize() starts; else start ffmpeg palettegen
CreatePalette(inter) ==
    IF palette # "none"
    THEN /\ opc' = "trials"
         /\ UNCHANGED palette_input
    ELSE /\ opc' = "palette"
         /\ palette_input' = PaletteInput(inter)

(***************************************************************************)
(* The arguments the caller passes to optimize().  Values around each      *)
(* domain: 0 and native + 1 for fps and size, one below and one above the  *)
(* lossy domain.  A call either names well-formed bounds that start at the *)
(* least legal value, or repeats the bounds of the instance with one       *)
(* argument replaced by any value.                                         *)
(***************************************************************************)
FpsArgs == 0..(NativeFps + 1)

SizeArgs == 0..(NativeWidth + 1)

LossyArgs == {LOSSY_MIN - 1, LOSSY_MIN, LOSSY_MIN + 1, LOSSY_MAX + 1}

LimitArgs == 0..MaxLimit

FromLeast(S) == {MinMax(a, b) : a \in {a \in S : \A c \in S : a <= c}, b \in S}

Arguments(limit, f, s, l) ==
    [output_size_limit |-> limit, fps_min |-> f.min, fps_max |-> f.max,
     size_min |-> s.min, size_max |-> s.max,
     lossy_min |-> l.min, lossy_max |-> l.max]

WellFormed ==
    {Arguments(limit, f, s, l) :
        limit \in LimitArgs \ {0}, f \in FromLeast(FpsArgs \cap (1..NativeFps)),
        s \in FromLeast(SizeArgs \cap (1..NativeWidth)),
        l \in FromLeast(LossyArgs \cap (LOSSY_MIN..LOSSY_MAX))}

ArgValues ==
    [output_size_limit |-> LimitArgs, fps_min |-> FpsArgs, fps_max |-> FpsArgs,
     size_min |-> SizeArgs, size_max |-> SizeArgs,
     lossy_min |-> LossyArgs, lossy_max |-> LossyArgs]

OneChanged ==
    LET a == Arguments(MaxLimit, fps, size, lossy)
    IN  {[a EXCEPT ![k] = v] : <<k, v>> \in
            UNION {{k} \X ArgValues[k] : k \in DOMAIN ArgValues}}

CallArguments == WellFormed \cup OneChanged

\* the number of triples the trials of a call may draw
CallGrid(a) ==
    (a.fps_max - a.fps_min + 1) * (a.size_max - a.size_min + 1)
        * (a.lossy_max - a.lossy_min + 1)

(***************************************************************************)
(* optimize() (lines 169-265).                                             *)
(***************************************************************************)
\* the trials of the study that completed: <<cache path, byte size returned>>
CompletedTrials ==
    {t \in (DOMAIN returned) \X ByteSizes : t[2] \in returned[t[1]]}

TrialValue(t) == objective(t[1], t[2], args.output_size_limit)

\* study.best_params: a completed trial of the least objective value
BestTrials ==
    {t \in CompletedTrials :
        \A u \in CompletedTrials : ~ValueLess(TrialValue(u), TrialValue(t))}

\* optimize() from its entry to the first external invocation (lines 184-219):
\* the tests of the arguments, then _create_intermediate and _create_palette,
\* each returning at once if its file exists; a fresh study (line 248)
Optimize ==
    /\ opc = "ready"
    /\ calls < MaxCalls
    /\ outcome.cause \notin {"invalid-limit", "invalid-bounds"}
    /\ \E a \in CallArguments :
        /\ args' = a
        /\ calls' = calls + 1
        /\ IF FailedCheck(a) # 0
           THEN /\ opc' = "ready"
                /\ Failed("ValueError", IF FailedCheck(a) = 1
                                        THEN "invalid-limit"
                                        ELSE "invalid-bounds")
                /\ UNCHANGED <<fps, size, lossy, palette_input,
                               invocations, requests, returned>>
           ELSE /\ CallGrid(a) <= MaxCallGrid
                /\ fps' = MinMax(a.fps_min, a.fps_max)
                /\ size' = MinMax(a.size_min, a.size_max)
                /\ lossy' = MinMax(a.lossy_min, a.lossy_max)
                /\ invocations' = [path \in CachePaths' |-> 0]
                /\ requests' = [path \in CachePaths' |-> 0]
                /\ returned' = [path \in CachePaths' |-> {}]
                /\ outcome' = NoOutcome
                /\ UNCHANGED reported
                /\ IF NeedsIntermediate(a) /\ ~intermediate
                   THEN /\ opc' = "intermediate"
                        /\ UNCHANGED palette_input
                   ELSE CreatePalette(intermediate)
    /\ UNCHANGED <<pc, m, found_params, vals, result, asked, fixed, oracle>>
    /\ UNCHANGED <<jobs, started, aborted, intermediate, dir, wk, completed>>
    /\ UNCHANGED <<palette, best, output>>

\* The ffmpeg of _create_intermediate exits (lines 105-114).  It writes to
\* self.intermediate itself: after a zero exit status the file is there, after
\* a failure it may be.  Then _create_palette.
IntermediateExit ==
    /\ opc = "intermediate"
    /\ \/ /\ intermediate' = TRUE
          /\ CreatePalette(TRUE)
          /\ UNCHANGED <<outcome, reported>>
       \/ /\ intermediate' \in BOOLEAN
          /\ opc' = "ready"
          /\ Failed("CalledProcessError", "render-failure")
          /\ UNCHANGED palette_input
    /\ UNCHANGED <<args, calls, palette, best, output>>
    /\ UNCHANGED <<jobs, started, aborted, dir, wk, invocations, completed,
                   requests, returned>>
    /\ UNCHANGED searchVars

\* The ffmpeg of _create_palette exits (lines 88-96).  It writes to
\* self.palette itself: after a zero exit status the file is there, after a
\* failure it may be.  Then study.optimize().
PaletteExit ==
    /\ opc = "palette"
    /\ \/ /\ palette' = palette_input
          /\ opc' = "trials"
          /\ UNCHANGED <<outcome, reported>>
       \/ /\ palette' \in {"none", palette_input}
          /\ opc' = "ready"
          /\ Failed("CalledProcessError", "render-failure")
    /\ UNCHANGED <<args, calls, palette_input, best, output>>
    /\ UNCHANGED cacheVars
    /\ UNCHANGED searchVars

\* KeyboardInterrupt during study.optimize() (lines 253-254).  With one job
\* the trial runs in the caller's thread and is abandoned where it is, its
\* temporary file left behind; with more jobs the worker threads finish their
\* trials and none is started.
Interrupt ==
    /\ opc = "trials"
    /\ ~aborted
    /\ opc' = "interrupted"
    /\ wk' = IF jobs = 1 THEN [w \in Workers |-> Idle] ELSE wk
    /\ UNCHANGED <<args, calls, outcome, reported, palette, palette_input,
                   best, output>>
    /\ UNCHANGED <<jobs, started, aborted, intermediate, dir, invocations,
                   completed, requests, returned>>
    /\ UNCHANGED searchVars

\* a mutation: __exit__ removes the files with a cache name only
GlobGifNamed(d) == {q \in DOMAIN d : Len(q) > 1}

\* self.tmp.glob("*.gif"): every path of `dir` is a .gif (temporary files and
\* both forms of cache name); palette.png and intermediate.avi are not in dir
GlobGif(d) == DOMAIN d

\* study.optimize() is over (lines 252-265): no trial is running.  The
\* exception of a failed trial leaves optimize(); else best_params (ValueError
\* if no trial completed), stat, and the rename to the output path.  The
\* counts of invocations and requests are kept per study.
EndStudy ==
    /\ opc \in {"trials", "interrupted"}
    /\ \A w \in Workers : wk[w].pc \in {"idle", "raised"}
    /\ wk' = [w \in Workers |-> Idle]
    /\ aborted' = FALSE
    /\ opc' = "ready"
    /\ IF aborted /\ opc = "trials"
       THEN /\ \E w \in Workers :
                 /\ wk[w].pc = "raised"
                 /\ Failed(wk[w].exc, "render-failure")
            /\ UNCHANGED <<dir, best, output>>
       ELSE IF CompletedTrials = {}
       THEN /\ Failed("ValueError", "no-trial")
            /\ UNCHANGED <<dir, best, output>>
       ELSE \E t \in BestTrials :
                /\ best' = t[1]
                /\ IF Exists(t[1])
                   THEN /\ output' = [path |-> t[1], bytes |-> dir[t[1]]]
                        /\ dir' = [q \in DOMAIN dir \ {t[1]} |-> dir[q]]
                        /\ outcome' = [kind |-> "0", cause |-> ""]
                        /\ UNCHANGED reported
                   ELSE /\ Failed("FileNotFoundError", "no-artifact")
                        /\ UNCHANGED <<dir, output>>
    /\ invocations' = [path \in CachePaths |-> 0]
    /\ requests' = [path \in CachePaths |-> 0]
    /\ UNCHANGED <<args, calls, palette, palette_input>>
    /\ UNCHANGED <<jobs, started, intermediate, completed, returned>>
    /\ UNCHANGED searchVars

\* __exit__ (lines 36-38): the scope of the Optimizer ends, between calls
Exit ==
    /\ opc = "ready"
    /\ opc' = "exited"
    /\ dir' = [q \in DOMAIN dir \ GlobGif(dir) |-> dir[q]]
    /\ UNCHANGED <<args, calls, outcome, reported, palette, palette_input,
                   best, output>>
    /\ UNCHANGED <<jobs, started, aborted, intermediate, wk, invocations,
                   completed, requests, returned>>
    /\ UNCHANGED searchVars

NextOptimizer ==
    \/ Construct
    \/ Optimize
    \/ IntermediateExit
    \/ PaletteExit
    \/ NextCache
    \/ Interrupt
    \/ EndStudy
    \/ Exit

(***************************************************************************)
(* Initial states: a generator object just created for legal bounds        *)
(* (optimizer.py:187-206: 0 < min <= max <= native, 0 <= lossy <= 200).    *)
(***************************************************************************)

LegalBounds ==
    /\ fps \in {MinMax(a, b) : a \in 1..MaxFps, b \in 1..MaxFps}
    /\ size \in {MinMax(a, b) : a \in 1..MaxSize, b \in 1..MaxSize}
    /\ lossy \in {MinMax(a, a + d) : a \in LossyMins, d \in 0..MaxLossySpan}
    /\ fps.min <= fps.max
    /\ size.min <= size.max
    /\ LOSSY_MIN <= lossy.min /\ lossy.max <= LOSSY_MAX

InitGenerator ==
    /\ pc = "new"
    /\ m = NoVals
    /\ found_params = <<>>
    /\ vals = <<>>
    /\ result = NoVals
    /\ asked = <<>>

\* no Optimizer was constructed and no optimize() call made
NoCall ==
    /\ opc = "new"
    /\ args = NoArgs
    /\ calls = 0
    /\ outcome = NoOutcome
    /\ reported = {}
    /\ palette = "none"
    /\ palette_input = ""
    /\ best = <<>>
    /\ output = NoFile

\* the cache is not in use while the generator is studied
NoCache == InitCache(1) /\ intermediate = FALSE /\ NoCall

Init ==
    /\ LegalBounds
    /\ InitGenerator
    /\ fixed = FALSE
    /\ oracle = [g \in GridTriples |-> FALSE]
    /\ NoCache

InitOracle ==
    /\ LegalBounds
    /\ GridSize <= MaxOracleGrid
    /\ InitGenerator
    /\ fixed = TRUE
    /\ oracle \in [GridTriples -> BOOLEAN]
    /\ NoCache

\* optimize() after its checks of the bounds, at study.optimize(): legal bounds
\* with a small grid (only the identity of the keys matters to the cache, so
\* each range starts at its least value), any number of workers, intermediate
\* made or not
InitTrials ==
    /\ LegalBounds
    /\ fps.min = 1 /\ size.min = 1 /\ lossy.min = LOSSY_MIN
    /\ GridSize <= MaxCacheGrid
    /\ InitGenerator
    /\ fixed = FALSE
    /\ oracle = [g \in GridTriples |-> FALSE]
    /\ intermediate \in BOOLEAN
    /\ \E n \in JobCounts : InitCache(n)
    /\ opc = "trials"
    /\ args = Arguments(MaxLimit, fps, size, lossy)
    /\ calls = 1
    /\ outcome = NoOutcome
    /\ reported = {}
    /\ palette = PaletteInput(intermediate)
    /\ palette_input = PaletteInput(intermediate)
    /\ best = <<>>
    /\ output = NoFile

\* before Optimizer(video_file): nothing exists; the bounds are placeholders
\* until the first optimize() call that passes the tests sets them.  The
\* caller passes jobs=1, the default of the command line.
InitOptimizer ==
    /\ fps = MinMax(1, 1)
    /\ size = MinMax(1, 1)
    /\ lossy = MinMax(LOSSY_MIN, LOSSY_MIN)
    /\ InitGenerator
    /\ fixed = FALSE
    /\ oracle = [g \in GridTriples |-> FALSE]
    /\ intermediate = FALSE
    /\ InitCache(1)
    /\ NoCall

Spec == Init /\ [][NextSearch]_vars

SpecOracle == InitOracle /\ [][NextSearch]_vars

SpecCache == InitTrials /\ [][NextCache]_vars

SpecOptimizer == InitOptimizer /\ [][NextOptimizer]_vars


(***************************************************************************)
(* Vocabulary of the properties of the elimination search.                 *)
(***************************************************************************)
\* the generator has ended: by return, by UnsatisfiableConstraints, or by the
\* ZeroDivisionError of line 48
Done == pc \in {"returned", "unsat", "zerodiv"}

Calls == Len(asked)

SomeAccepted == \E i \in 1..Calls : asked[i].ok

NoneAccepted == \A i \in 1..Calls : ~asked[i].ok

\* ceil(log2(n)) for n >= 1
RECURSIVE CeilLog2(_)
CeilLog2(n) == IF n <= 1 THEN 0 ELSE 1 + CeilLog2((n + 1) \div 2)

SinglePoint ==
    fps.min = fps.max /\ size.min = size.max /\ lossy.min = lossy.max

\* the score the grid gives a triple
Score(g) == Distance(g[1], g[2], g[3])

MaxScore(g) == \A h \in GridTriples : Score(h) <= Score(g)

\* the verdict function is monotone along the ranked list: once a candidate
\* passes, every candidate ranked at or below it passes
OracleMonotone ==
    \A i \in 1..GridSize : \A j \in i..GridSize :
        oracle[Triple(SortedVals[i])] => oracle[Triple(SortedVals[j])]

(***************************************************************************)
(* C1.  A returned candidate was proposed, was accepted, and is the most    *)
(* recently accepted one; and once any proposed candidate was accepted the *)
(* search ends by returning a candidate.  Stated as the claim stands: the  *)
(* second half fails when line 48 raises ZeroDivisionError.                *)
(***************************************************************************)
C1_ReturnedIsLastAccepted ==
    pc = "returned" =>
        \E i \in 1..Calls :
            /\ asked[i].ok
            /\ asked[i].cand = Triple(result)
            /\ \A j \in (i + 1)..Calls : ~asked[j].ok

C1_Claim ==
    /\ C1_ReturnedIsLastAccepted
    /\ (Done /\ SomeAccepted) => pc = "returned"

(***************************************************************************)
(* C2.  With a fixed verdict function, unsatisfiable-constraints is        *)
(* reported only if no candidate of the whole grid passes (the claim as it *)
(* stands), and, amended, only if neither corner candidate passes.         *)
(***************************************************************************)
C2_Claim == pc = "unsat" => \A g \in GridTriples : ~oracle[g]

C2_Amended ==
    pc = "unsat" => /\ ~oracle[<<fps.max, size.max, lossy.min>>]
                    /\ ~oracle[<<fps.min, size.min, lossy.max>>]

\* unsatisfiable was reported although some candidate of the grid passes
C2_Witness == pc = "unsat" /\ Calls = 2 /\ \E g \in GridTriples : oracle[g]

(***************************************************************************)
(* C3.  With a fixed verdict function that is monotone along the ranking,  *)
(* the returned candidate passes and no passing candidate of the grid has  *)
(* a higher score.                                                         *)
(***************************************************************************)
C3_Claim ==
    (pc = "returned" /\ ~GridRaises /\ OracleMonotone) =>
        /\ oracle[Triple(result)]
        /\ \A g \in GridTriples : oracle[g] => Score(g) <= Score(Triple(result))

(***************************************************************************)
(* C4.  The search never makes more than ceil(log2(N)) + 2 oracle calls.   *)
(***************************************************************************)
C4_CallBound == Calls <= CeilLog2(GridSize) + 2

\* a finished run on a grid of at least four candidates that used every call
C4_Witness == Done /\ GridSize >= 4 /\ Calls = CeilLog2(GridSize) + 2

(***************************************************************************)
(* C5.  On a one-candidate grid the search makes exactly one oracle call.  *)
(***************************************************************************)
C5_Claim == (Done /\ SinglePoint) => Calls = 1

(***************************************************************************)
(* C6.  If the oracle returned true for a maximal-score candidate of the   *)
(* grid, the search returns that candidate.                                *)
(***************************************************************************)
C6_Claim ==
    (Done /\ ~GridRaises) =>
        \A i \in 1..Calls :
            (asked[i].ok /\ MaxScore(asked[i].cand)) =>
                (pc = "returned" /\ Triple(result) = asked[i].cand)

(***************************************************************************)
(* C7.  If every verdict was false the search ends with                    *)
(* unsatisfiable-constraints after at most N oracle calls.                 *)
(***************************************************************************)
C7_Claim == (Done /\ NoneAccepted) => (pc = "unsat" /\ Calls <= GridSize)

(***************************************************************************)
(* Vocabulary of the properties of the render cache.                       *)
(***************************************************************************)
InFlight(w) == wk[w].pc \in {"ffmpeg", "gifsicle"}

LossyPaths == {LossyName(g[1], g[2], g[3]) : g \in GridTriples}

(***************************************************************************)
(* C8.  With concurrent trial workers no cache path sees more than one     *)
(* external invocation.  Stated as the claim stands: nothing serialises    *)
(* the existence test and the render, so it fails.                         *)
(***************************************************************************)
C8_Claim == jobs > 1 => \A path \in CachePaths : invocations[path] <= 1

(***************************************************************************)
(* C9.  With a single sequential caller every cache path sees at most one  *)
(* external invocation, a request that returned was served by exactly one, *)
(* and all requests for a triple returned the same byte size, the size of  *)
(* the cached file.                                                        *)
(***************************************************************************)
C9_OneRenderPerKey ==
    jobs = 1 =>
        \A path \in CachePaths :
            /\ invocations[path] <= 1
            /\ requests[path] > 0 =>
                /\ invocations[path] = 1
                /\ Exists(path)
                /\ returned[path] = {dir[path]}

\* the single caller asked for the same triple twice; one invocation served both
C9_Witness ==
    /\ jobs = 1
    /\ \E path \in LossyPaths : requests[path] >= 2 /\ invocations[path] = 1

(***************************************************************************)
(* C10.  A file is at a cache path only if an external invocation for that *)
(* path exited successfully, in every state: tool running, tool failed,    *)
(* one or two workers.  A worker whose render failed has ended the         *)
(* optimize() call, and no further trial starts.                           *)
(***************************************************************************)
C10_CacheOnlyAfterSuccess ==
    /\ \A path \in CachePaths : Exists(path) => path \in completed
    /\ \A w \in Workers : wk[w].pc = "raised" => aborted
    /\ aborted => \A w \in Workers : ~ENABLED BeginTrial(w)

\* two workers: one whose tool failed after writing its file, one whose tool is
\* still running and has written; neither cache path holds a file
C10_Witness ==
    /\ jobs = 2
    /\ \E w \in Workers, v \in Workers :
        /\ wk[w].pc = "raised"
        /\ wk[w].output_file \in CachePaths \ completed
        /\ Exists(wk[w].output_file_tmp)
        /\ InFlight(v)
        /\ Exists(wk[v].output_file_tmp)
        /\ ~Exists(wk[w].output_file)
        /\ ~Exists(wk[v].output_file)

(***************************************************************************)
(* Vocabulary of the properties of the ranked list and the bisection.      *)
(***************************************************************************)
\* the position of each grid triple in the descending-score list (1 is the top)
Ranks ==
    LET sorted == SortedVals
    IN  [g \in GridTriples |->
            CHOOSE i \in 1..Len(sorted) : Triple(sorted[i]) = g]

\* the candidates that received the verdict false so far
Rejected == {asked[i].cand : i \in {j \in 1..Calls : ~asked[j].ok}}

\* the sends answered inside the loop: the third and later ones
BisectionSends == 3..Calls

\* the generator is in the loop of lines 61-69, or has left it
InBisection == pc = "yield_median" \/ (pc = "returned" /\ Calls >= 2)

Contiguous(v) ==
    \E a \in 1..(GridSize + 1) : \E b \in 0..GridSize :
        v = SubSeq(SortedVals, a, b)

(***************************************************************************)
(* Vocabulary of the properties of the two scorers: the contribution of    *)
(* one dimension to the score of values() (the squared distances of line   *)
(* 55) and to the dist of objective().                                     *)
(***************************************************************************)
Dimensions == {"fps", "size", "lossy"}

DimRange(dim) ==
    CASE dim = "fps" -> fps.min..fps.max
      [] dim = "size" -> size.min..size.max
      [] dim = "lossy" -> lossy.min..lossy.max

ValuesTerm(dim, x) ==
    CASE dim = "fps" -> dist_fps2(x)
      [] dim = "size" -> dist_size2(x)
      [] dim = "lossy" -> dist_lossy2(x)

ObjectiveTerm(dim, x) ==
    CASE dim = "fps" -> objective_dist_fps(x)
      [] dim = "size" -> objective_dist_size(x)
      [] dim = "lossy" -> objective_dist_lossy(x)

\* the contribution of dim does not fall as the value moves toward the maximum
RisesToMax(Term(_, _), dim) ==
    \A x \in DimRange(dim) : \A y \in DimRange(dim) :
        x < y => Term(dim, x) <= Term(dim, y)

\* the contribution of dim does not fall as the value moves toward the minimum
RisesToMin(Term(_, _), dim) ==
    \A x \in DimRange(dim) : \A y \in DimRange(dim) :
        x < y => Term(dim, x) >= Term(dim, y)

C16_Claim ==
    \A i \in 1..Calls : \A j \in 1..Calls :
        i # j => asked[i].cand # asked[j].cand

(***************************************************************************)
(* C17.  In every state of the bisection the working slice is a contiguous *)
(* part of the ranked list, it holds no candidate that was rejected, and   *)
(* every candidate in it is ranked below each candidate rejected at a      *)
(* median.                                                                 *)
(***************************************************************************)
C17_Claim ==
    InBisection =>
        LET rank == Ranks
        IN  /\ Contiguous(vals)
            /\ \A k \in 1..Len(vals) : Triple(vals[k]) \notin Rejected
            /\ \A k \in 1..Len(vals) : \A i \in BisectionSends :
                  ~asked[i].ok => rank[Triple(vals[k])] > rank[asked[i].cand]

(***************************************************************************)
(* C18.  Scoring is total over the legal bounds: no grid triple makes the  *)
(* scorer raise, and a run ends with a returned candidate or with          *)
(* unsatisfiable-constraints, never with another failure.                  *)
(***************************************************************************)
C18_Claim ==
    /\ pc \in {"yield_median", "zerodiv"} => ~GridRaises
    /\ Done => pc \in {"returned", "unsat"}

(***************************************************************************)
(* C20.  In the bisection every newly accepted candidate is ranked         *)
(* strictly higher (nearer the top of the descending list) than every      *)
(* candidate accepted earlier in the bisection, and the returned candidate *)
(* has the highest rank among the candidates accepted in the bisection.    *)
(***************************************************************************)
C20_AcceptedRiseInRank ==
    LET rank == Ranks
    IN  /\ \A i \in BisectionSends : \A j \in BisectionSends :
              (i < j /\ asked[i].ok /\ asked[j].ok) =>
                  rank[asked[j].cand] < rank[asked[i].cand]
        /\ (pc = "returned" /\ \E i \in BisectionSends : asked[i].ok) =>
              \A i \in BisectionSends :
                  asked[i].ok => rank[Triple(result)] <= rank[asked[i].cand]

\* a finished run that accepted two candidates in the bisection
C20_Witness ==
    /\ pc = "returned"
    /\ \E i \in BisectionSends : \E j \in BisectionSends :
          i < j /\ asked[i].ok /\ asked[j].ok

(***************************************************************************)
(* Vocabulary of the properties of the Optimizer's life.                   *)
(***************************************************************************)
\* the step is an optimize() call being entered
CallStep == calls' = calls + 1

\* a bound of `a` lies outside its domain, or a minimum exceeds its maximum
OutOfDomain(a) ==
    \/ \E x \in {a.fps_min, a.fps_max} : x <= 0 \/ x > NativeFps
    \/ \E x \in {a.size_min, a.size_max} : x <= 0 \/ x > NativeWidth
    \/ \E x \in {a.lossy_min, a.lossy_max} : x < 0 \/ x > 200
    \/ a.fps_min > a.fps_max
    \/ a.size_min > a.size_max
    \/ a.lossy_min > a.lossy_max

\* an external tool of optimize() is running
ToolRunning ==
    \/ opc \in {"intermediate", "palette"}
    \/ \E w \in Workers : wk[w].pc \in {"ffmpeg", "gifsicle"}

(***************************************************************************)
(* C11.  An optimize() call with a bound outside its domain, or with       *)
(* min > max on a dimension, ends at once with ValueError (the             *)
(* invalid-bounds error): no external tool is started, and the working     *)
(* directory, the palette, the intermediate and the cache stay as they     *)
(* were.                                                                   *)
(***************************************************************************)
C11_InvalidBoundsRejected ==
    [][(CallStep /\ OutOfDomain(args')) =>
          /\ opc' = "ready"
          /\ outcome'.kind = "ValueError"
          /\ args'.output_size_limit > 0 => outcome'.cause = "invalid-bounds"
          /\ ~ToolRunning'
          /\ UNCHANGED <<dir, palette, intermediate, invocations, completed,
                         started, output>>]_vars

\* a call with invalid bounds was rejected while renders, the palette and a
\* promoted output of an earlier call existed
C11_Witness ==
    /\ opc = "ready"
    /\ outcome.cause = "invalid-bounds"
    /\ OutOfDomain(args)
    /\ DOMAIN dir # {}
    /\ palette # "none"
    /\ output # NoFile

(***************************************************************************)
(* C12.  The artifact promoted to the output path is larger than the size  *)
(* limit only if no candidate rendered in that run was within the limit:   *)
(* when some trial of the run returned a size within the limit, the        *)
(* promoted artifact is within it.                                         *)
(***************************************************************************)
C12_Claim ==
    (/\ opc = "ready"
     /\ outcome.kind = "0"
     /\ \E t \in CompletedTrials : t[2] <= args.output_size_limit)
        => output.bytes <= args.output_size_limit

(***************************************************************************)
(* C13.  Once the scope of the Optimizer has ended no generated render is  *)
(* left in the working directory, however the optimize() calls ended; and  *)
(* if the latest call succeeded, the output path holds the file that was   *)
(* the cached artifact of the winning candidate, with the byte size its    *)
(* trial returned.                                                         *)
(***************************************************************************)
C13_OutputKeptRendersRemoved ==
    opc = "exited" =>
        /\ DOMAIN dir = {}
        /\ outcome.kind = "0" =>
              /\ output # NoFile
              /\ output.path = best
              /\ <<best, output.bytes>> \in BestTrials

\* the scope ended after a successful call that had rendered more than the
\* winner
C13_Witness ==
    /\ opc = "exited"
    /\ outcome.kind = "0"
    /\ output # NoFile
    /\ Cardinality(completed) >= 3

(***************************************************************************)
(* C14.  invalid-bounds, unsatisfiable-constraints, render-failure and     *)
(* probe-failure reach the caller as pairwise distinguishable outcomes: no *)
(* two failures of different ones of these causes are reported with the    *)
(* same exception kind.                                                    *)
(***************************************************************************)
FailureKinds ==
    {"invalid-bounds", "unsatisfiable-constraints", "render-failure",
     "probe-failure"}

C14_Claim ==
    \A a \in reported : \A b \in reported :
        (a.cause \in FailureKinds /\ b.cause \in FailureKinds
            /\ a.cause # b.cause) => a.kind # b.kind

(***************************************************************************)
(* C19.  Over the optimize() calls of one instance: the tool that makes    *)
(* the intermediate is started only in a call whose fps_max or size_max is *)
(* strictly below the native value and only while no intermediate exists,  *)
(* and an intermediate stays; the tool that makes the palette is started   *)
(* only while no palette exists, a palette stays as it was made, it is not *)
(* started before the intermediate of a call that asks for one exists, and *)
(* its input is the intermediate whenever one exists; no trial runs, so no *)
(* candidate render is started, before the palette exists.                 *)
(***************************************************************************)
CeilingBelowNative(a) == a.fps_max < NativeFps \/ a.size_max < NativeWidth

IntermediateStarts == opc # "intermediate" /\ opc' = "intermediate"

PaletteStarts == opc # "palette" /\ opc' = "palette"

C19_SetupOrder ==
    /\ [](opc = "intermediate" => CeilingBelowNative(args) /\ ~intermediate)
    /\ [](opc = "palette" =>
            /\ palette = "none"
            /\ CeilingBelowNative(args) => intermediate
            /\ palette_input = IF intermediate THEN "intermediate"
                                               ELSE "video_file")
    /\ []((opc = "trials" \/ \E w \in Workers : wk[w].pc # "idle") =>
            palette # "none")
    /\ [][/\ intermediate => intermediate'
          /\ palette # "none" => palette' = palette
          /\ palette' # palette => opc = "palette" /\ palette' = palette_input
          /\ IntermediateStarts => CallStep
          /\ PaletteStarts => CallStep \/ opc = "intermediate"]_vars

\* a second call reuses the intermediate and the palette made from it, and a
\* candidate render is running
C19_Witness ==
    /\ calls = 2
    /\ intermediate
    /\ palette = "intermediate"
    /\ \E w \in Workers : wk[w].pc = "ffmpeg"

=============================================================================
